---- MODULE Spec2Model ----
(***************************************************************************)
(* Model of two source adapters of ParkAPI2-sources:                       *)
(*   - v3/neckarsulm.py : NeckarsulmConverter.handle_csv (CSV import)      *)
(*   - new/bahn.py      : BahnParking.get_lot_data (live occupancy)        *)
(* Cell values are Python str objects; they are modelled as sequences of   *)
(* one-character strings so that replace(), the digit search and the       *)
(* number parsers are computed character by character.                     *)
(* Optional values (None or a value) are modelled as the empty set or a    *)
(* singleton set.                                                          *)
(***************************************************************************)
EXTENDS Integers, Sequences, FiniteSets, TLC

VARIABLES
    \* ---- NeckarsulmConverter.handle_csv ----
    perm,       \* column permutation the exporter applied to the table
    data,       \* the argument of handle_csv: list[list]
    pc,         \* position in handle_csv
    mapping,    \* result of get_mapping_by_header
    idx,        \* number of data rows the for loop has consumed
    inputs,     \* import_source_result.static_parking_site_inputs
    errors,     \* import_source_result.static_parking_site_errors
    raised,     \* exception that left handle_csv, or "none"
    \* ---- BahnParking.get_lot_data ----
    facilities, \* result of get_lot_infos_from_geojson
    bpc,        \* position in get_lot_data
    fidx,       \* number of facilities the for loop has consumed
    alloc,      \* prognosis["_embedded"][0]['occupancy'] of the current facility
    status,     \* local variable status
    capacity,   \* local variable capacity
    num_free_text, \* local variable num_free_text
    num_free,   \* local variable num_free
    lots,       \* local list lots
    returned,   \* value get_lot_data returned (None until it returns)
    braised,    \* exception that left get_lot_data, or "none"
    \* ---- decimal normalisation applied repeatedly ----
    orig,       \* the raw cell
    value,      \* the cell after the applications so far
    prev,       \* the cell before the latest application
    napplied    \* number of applications so far

csvVars  == <<perm, data, pc, mapping, idx, inputs, errors, raised>>
bahnVars == <<facilities, bpc, fidx, alloc, status, capacity, num_free_text,
              num_free, lots, returned, braised>>
normVars == <<orig, value, prev, napplied>>
vars     == <<csvVars, bahnVars, normVars>>

\* Python's None and a present value.
None == {}
Some(x) == {x}
TheValue(o) == CHOOSE x \in o : TRUE

--------------------------------------------------------------------------
\* Bounds of the model.
MaxRows == 3          \* data rows per table
MaxFacilities == 2    \* facilities per get_lot_data call
MaxStrLen == 3        \* length of the raw cells the normalisation is tried on
MaxApply == 2         \* applications of the normalisation to one cell

--------------------------------------------------------------------------
\* Python str helpers.
Digits == {"0", "1", "2", "3", "4", "5", "6", "7", "8", "9"}

DigitVal(c) ==
    CASE c = "0" -> 0 [] c = "1" -> 1 [] c = "2" -> 2 [] c = "3" -> 3
      [] c = "4" -> 4 [] c = "5" -> 5 [] c = "6" -> 6 [] c = "7" -> 7
      [] c = "8" -> 8 [] c = "9" -> 9

DigitChar(d) ==
    CASE d = 0 -> "0" [] d = 1 -> "1" [] d = 2 -> "2" [] d = 3 -> "3"
      [] d = 4 -> "4" [] d = 5 -> "5" [] d = 6 -> "6" [] d = 7 -> "7"
      [] d = 8 -> "8" [] d = 9 -> "9"

\* re.search(r'\d', s) is not None
HasDigit(s) == \E k \in 1..Len(s) : s[k] \in Digits

\* s.replace(',', '.'): every comma becomes a dot
ReplaceCommaByDot(s) == [k \in 1..Len(s) |-> IF s[k] = "," THEN "." ELSE s[k]]

\* sub in s
Contains(s, sub) ==
    \E k \in 1..(Len(s) - Len(sub) + 1) : SubSeq(s, k, k + Len(sub) - 1) = sub

RECURSIVE ParseNat(_)
ParseNat(s) ==
    IF s = <<>> THEN 0
    ELSE ParseNat(SubSeq(s, 1, Len(s) - 1)) * 10 + DigitVal(s[Len(s)])

RECURSIVE NatToStr(_)
NatToStr(n) ==
    IF n < 10 THEN <<DigitChar(n)>>
    ELSE NatToStr(n \div 10) \o <<DigitChar(n % 10)>>

\* str(n) of an int
IntToStr(n) == IF n < 0 THEN <<"-">> \o NatToStr(0 - n) ELSE NatToStr(n)

RECURSIVE Pow10(_)
Pow10(n) == IF n = 0 THEN 1 ELSE 10 * Pow10(n - 1)

--------------------------------------------------------------------------
\* The decimal normalisation handle_csv applies to lat and lon:
\*   x.replace(',', '.') if bool(re.search(r'\d', x)) else x
NormalizeDecimalAlways(s) == ReplaceCommaByDot(s)

NormalizeDecimal(s) == IF HasDigit(s) THEN ReplaceCommaByDot(s) ELSE s

--------------------------------------------------------------------------
\* validataclass validators used by NeckarsulmRowInput.  Each returns
\* [ok |-> BOOLEAN, value |-> the validated value].
MAX_LENGTH == 255
LAT_MIN == 40
LAT_MAX == 60
LON_MIN == 7
LON_MAX == 10

Invalid == [ok |-> FALSE, value |-> None]

Unsigned(s) == IF Len(s) > 0 /\ s[1] \in {"-", "+"} THEN Tail(s) ELSE s
IsNegative(s) == Len(s) > 0 /\ s[1] = "-"

\* IntegerValidator(allow_strings=True): an optional sign and decimal digits,
\* converted with int(); the default range is that of a signed 32 bit integer.
IntegerValidator(s) ==
    LET body == Unsigned(s)
    IN  IF Len(body) = 0 \/ \E k \in 1..Len(body) : body[k] \notin Digits
        THEN Invalid
        ELSE LET n == IF IsNegative(s) THEN 0 - ParseNat(body) ELSE ParseNat(body)
             IN  IF n < (0 - 2147483647) - 1 \/ n > 2147483647
                 THEN Invalid
                 ELSE [ok |-> TRUE, value |-> n]

\* StringValidator(max_length=255)
StringValidator(s) ==
    IF Len(s) > MAX_LENGTH THEN Invalid ELSE [ok |-> TRUE, value |-> s]

\* DecimalValidator(min_value, max_value): an optional sign, decimal digits and
\* at most one dot, at least one digit; the value is Decimal(s), kept as its
\* signed coefficient and the number of fractional digits.
DecimalValidator(s, min_value, max_value) ==
    LET body   == Unsigned(s)
        dots   == {k \in 1..Len(body) : body[k] = "."}
        digits == SelectSeq(body, LAMBDA c : c \in Digits)
    IN  IF \/ Cardinality(dots) > 1
           \/ Len(digits) = 0
           \/ \E k \in 1..Len(body) : body[k] \notin Digits \cup {"."}
        THEN Invalid
        ELSE LET places == IF dots = {} THEN 0
                           ELSE Len(body) - (CHOOSE k \in dots : TRUE)
                 coeff  == IF IsNegative(s) THEN 0 - ParseNat(digits)
                           ELSE ParseNat(digits)
             IN  IF \/ coeff < min_value * Pow10(places)
                    \/ coeff > max_value * Pow10(places)
                 THEN Invalid
                 ELSE [ok |-> TRUE, value |-> [coeff |-> coeff, places |-> places]]

\* Python dict helpers: a dict is a function on its key set.
DictGet(d, k) == IF k \in DOMAIN d THEN Some(d[k]) ELSE None

\* dict(zip(keys, values)): pairs up to the shorter of the two lists
Zip(keys, values) ==
    LET n == IF Len(keys) < Len(values) THEN Len(keys) ELSE Len(values)
    IN  [f \in {keys[k] : k \in 1..n} |->
            values[CHOOSE k \in 1..n : keys[k] = f]]

--------------------------------------------------------------------------
\* class NeckarsulmRowInput: the fields and the validator of each.
IntFields == {"uid", "capacity", "capacity_carsharing", "capacity_charging",
              "capacity_woman", "capacity_disabled"}

header_row == <<
    "uid", "name", "type", "lat", "lon", "street", "postcode", "city",
    "max_stay", "capacity", "capacity_carsharing", "capacity_charging",
    "capacity_woman", "capacity_disabled", "has_fee", "opening_hours",
    "opening_hours_monday", "opening_hours_tuesday", "opening_hours_wednesday",
    "opening_hours_thursday", "opening_hours_friday", "opening_hours_saturday",
    "opening_hours_sunday", "opening_hours_public_holiday", "opening_days" >>

RowFields == {header_row[k] : k \in 1..Len(header_row)}

NeckarsulmRowInput(field, v) ==
    IF field \in IntFields THEN IntegerValidator(v)
    ELSE IF field = "lat" THEN DecimalValidator(v, LAT_MIN, LAT_MAX)
    ELSE IF field = "lon" THEN DecimalValidator(v, LON_MIN, LON_MAX)
    ELSE StringValidator(v)

\* DataclassValidator(NeckarsulmRowInput).validate(input_dict): every field is
\* required and validated; the ValidationError lists every field that failed.
neckarsulm_row_validator(input_dict) ==
    LET failed == {f \in RowFields :
                      \/ f \notin DOMAIN input_dict
                      \/ ~NeckarsulmRowInput(f, input_dict[f]).ok}
    IN  IF failed # {}
        THEN [ok |-> FALSE, errors |-> failed]
        ELSE [ok |-> TRUE,
              value |-> [f \in RowFields |-> NeckarsulmRowInput(f, input_dict[f]).value]]

header_mapping ==
    ("id" :> "uid") @@ ("name" :> "name") @@ ("kategorie" :> "type") @@
    ("y-koord" :> "lat") @@ ("x-koord" :> "lon") @@ ("strasse" :> "street") @@
    ("plz" :> "postcode") @@ ("stadt" :> "city") @@
    ("maxparken_1" :> "max_stay") @@ ("anz_plaetze" :> "capacity") @@
    ("anzcarsharing" :> "capacity_carsharing") @@
    ("anzeladestation" :> "capacity_charging") @@
    ("anzfrauenpark" :> "capacity_woman") @@
    ("anzbehinderte" :> "capacity_disabled") @@ ("gebuehren" :> "has_fee") @@
    ("open_time" :> "opening_hours") @@ ("open_mo" :> "opening_hours_monday") @@
    ("open_di" :> "opening_hours_tuesday") @@
    ("open_mi" :> "opening_hours_wednesday") @@
    ("open_do" :> "opening_hours_thursday") @@
    ("open_fr" :> "opening_hours_friday") @@
    ("open_sa" :> "opening_hours_saturday") @@
    ("open_so" :> "opening_hours_sunday") @@
    ("open_feier" :> "opening_hours_public_holiday") @@
    ("open_day" :> "opening_days")

type_mapping ==
    (<<"P", "a", "r", "k", "p", "l", "a", "t", "z">> :> "OFF_STREET_PARKING_GROUND") @@
    (<<"W", "a", "n", "d", "e", "r", "p", "a", "r", "k", "p", "l", "a", "t", "z">>
        :> "OFF_STREET_PARKING_GROUND") @@
    (<<"P", "a", "r", "k", "h", "a", "u", "s">> :> "CAR_PARK") @@
    (<<"T", "i", "e", "f", "g", "a", "r", "a", "g", "e">> :> "UNDERGROUND") @@
    (<<"p", "+", "r">> :> "PARK_AND_RIDE")

\* CsvConverter.get_mapping_by_header: every header cell is looked up in the
\* translation table; the result lists the canonical name of each position.
\* A header cell the table does not know, or a declared column the header
\* omits, is a MappingError.
get_mapping_by_header(hmap, header) ==
    IF \/ \E k \in 1..Len(header) : header[k] \notin DOMAIN hmap
       \/ \E key \in DOMAIN hmap : \A k \in 1..Len(header) : header[k] # key
    THEN [ok |-> FALSE, mapping |-> <<>>]
    ELSE [ok |-> TRUE, mapping |-> [k \in 1..Len(header) |-> hmap[header[k]]]]

\* ImportParkingSiteException(uid=..., message=...); the message is modelled
\* by the set of fields e.to_dict() reports.
ImportParkingSiteException(uid, failed) == [uid |-> uid, message |-> failed]

\* StaticParkingSiteInput(...) built from the validated row (lines 160-176);
\* static_data_updated_at is the wall clock and is left out.
StaticParkingSiteInput(row) ==
    [uid                 |-> IntToStr(row["uid"]),
     name                |-> row["name"],
     type                |-> DictGet(type_mapping, row["type"]),
     lat                 |-> row["lat"],
     lon                 |-> row["lon"],
     address             |-> row["street"] \o <<",", " ">> \o row["postcode"]
                                \o <<" ">> \o row["city"],
     max_stay            |-> row["max_stay"],
     capacity            |-> row["capacity"],
     capacity_carsharing |-> IntToStr(row["capacity_carsharing"]),
     capacity_charging   |-> row["capacity_charging"],
     capacity_woman      |-> row["capacity_woman"],
     capacity_disabled   |-> row["capacity_disabled"],
     has_fee             |-> row["has_fee"],
     opening_hours       |-> row["opening_hours"]]

\* The key handle_csv reads the uid of a rejected row from (line 154).
ErrorUidKey == "id"

\* One iteration of the for loop of handle_csv (lines 136-177) on one row:
\* the row is appended to the inputs, appended to the errors, or an exception
\* leaves the loop.
RowOutcome(mp, row) ==
    LET zipped == Zip(header_row, row)
    IN  IF "lat" \notin DOMAIN zipped \/ "lon" \notin DOMAIN zipped
        THEN [kind |-> "raise", exc |-> "KeyError"]
        ELSE IF Len(row) < Len(mp)
        THEN [kind |-> "raise", exc |-> "IndexError"]
        ELSE
        LET input_dict == [zipped EXCEPT !["lat"] = NormalizeDecimal(zipped["lat"]),
                                         !["lon"] = NormalizeDecimal(zipped["lon"])]
            validated  == neckarsulm_row_validator(input_dict)
        IN  IF ~validated.ok
            THEN [kind  |-> "error",
                  entry |-> ImportParkingSiteException(
                                DictGet(input_dict, ErrorUidKey), validated.errors)]
            ELSE [kind  |-> "input",
                  entry |-> StaticParkingSiteInput(validated.value)]

\* The list method append.
PrependTo(list, x) == <<x>> \o list

AppendTo(list, x) == Append(list, x)

\* handle_csv as a function of its argument: the exception that leaves it (or
\* "none") and the two sequences at that point.
RECURSIVE HandleRows(_, _, _)
HandleRows(mp, rows, acc) ==
    IF rows = <<>> THEN acc
    ELSE LET o == RowOutcome(mp, Head(rows))
         IN  CASE o.kind = "raise" -> [acc EXCEPT !.raised = o.exc]
               [] o.kind = "error" ->
                    HandleRows(mp, Tail(rows),
                               [acc EXCEPT !.errors = AppendTo(@, o.entry)])
               [] o.kind = "input" ->
                    HandleRows(mp, Tail(rows),
                               [acc EXCEPT !.inputs = AppendTo(@, o.entry)])

handle_csv(d) ==
    LET empty == [raised |-> "none", inputs |-> <<>>, errors |-> <<>>]
    IN  IF d = <<>> THEN [empty EXCEPT !.raised = "IndexError"]
        ELSE LET m == get_mapping_by_header(header_mapping, d[1])
             IN  IF ~m.ok THEN [empty EXCEPT !.raised = "MappingError"]
                 ELSE HandleRows(m.mapping, Tail(d), empty)

--------------------------------------------------------------------------
\* Inputs of handle_csv: tables built from a pool of rows.
NumCols == Len(header_row)

ColumnOf(field) == CHOOSE k \in 1..NumCols : header_row[k] = field

WithCell(row, field, v) == [row EXCEPT ![ColumnOf(field)] = v]

\* The header of the export in declaration order of header_mapping.
GermanHeader ==
    [k \in 1..NumCols |->
        CHOOSE key \in DOMAIN header_mapping : header_mapping[key] = header_row[k]]

BaseRow == <<
    <<"5">>, <<"P", "1">>, <<"P", "a", "r", "k", "h", "a", "u", "s">>,
    <<"4", "8", ",", "1">>, <<"9", ",", "2">>, <<"S">>, <<"7">>, <<"N">>,
    <<"2", "h">>, <<"1", "2", "0">>, <<"0">>, <<"2">>, <<"0">>, <<"4">>,
    <<"j", "a">>, <<"2", "4">>, <<"x">>, <<"x">>, <<"x">>, <<"x">>, <<"x">>,
    <<"x">>, <<"x">>, <<"x">>, <<"x">> >>

OtherRow ==
    WithCell(WithCell(WithCell(BaseRow, "uid", <<"0", "6">>),
                      "type", <<"S", "o", "n", "s", "t", "i", "g", "e">>),
             "lat", <<"4", "8", ".", "2">>)

NonNumericCapacityRow ==
    WithCell(WithCell(BaseRow, "uid", <<"7">>), "capacity", <<"a", "b", "c">>)

NegativeCapacityRow ==
    WithCell(WithCell(BaseRow, "uid", <<"8">>), "capacity", <<"-", "5">>)

NoDigitLatRow ==
    WithCell(WithCell(BaseRow, "uid", <<"9">>), "lat", <<"n", ",", "a">>)

ShortRow == SubSeq(BaseRow, 1, NumCols - 1)

VeryShortRow == SubSeq(BaseRow, 1, 3)

LongRow == WithCell(BaseRow, "uid", <<"1", "0">>) \o << <<"x">> >>

RowPool == {BaseRow, OtherRow, NonNumericCapacityRow, NegativeCapacityRow,
            NoDigitLatRow, ShortRow, VeryShortRow, LongRow}

UnknownColumnHeader == [GermanHeader EXCEPT ![1] = "ident"]

OmittedColumnHeader == SubSeq(GermanHeader, 1, NumCols - 1)

HeaderPool == {GermanHeader, UnknownColumnHeader, OmittedColumnHeader}

\* Column permutations: the identity and two transpositions.
Identity == [k \in 1..NumCols |-> k]

Swap(f, g) ==
    [k \in 1..NumCols |->
        IF k = ColumnOf(f) THEN ColumnOf(g)
        ELSE IF k = ColumnOf(g) THEN ColumnOf(f) ELSE k]

Perms == {Identity, Swap("uid", "capacity"), Swap("name", "lat")}

\* A row with its first NumCols cells permuted; a row that does not have
\* NumCols cells has no permuted form and is kept as it is.
PermuteRow(row, p) ==
    [k \in 1..Len(row) |->
        IF Len(row) >= NumCols /\ k <= NumCols THEN row[p[k]] ELSE row[k]]

PermuteTable(tb, p) == [r \in 1..Len(tb) |-> PermuteRow(tb[r], p)]

InversePerm(p) == [k \in 1..NumCols |-> CHOOSE j \in 1..NumCols : p[j] = k]

RowLists(n) == UNION {[1..m -> RowPool] : m \in 0..n}

\* Tables: no rows at all, a header that can be mapped with up to MaxRows data
\* rows, and a header that cannot be mapped (the call ends before a row is
\* read) with at most one data row.
Tables ==
    {<<>>} \cup
    {<<GermanHeader>> \o rows : rows \in RowLists(MaxRows)} \cup
    {<<h>> \o rows : h \in HeaderPool \ {GermanHeader}, rows \in RowLists(1)}

--------------------------------------------------------------------------
\* NeckarsulmConverter.handle_csv, statement by statement.
InitCsv ==
    /\ perm \in Perms
    /\ \E tb \in Tables : data = PermuteTable(tb, perm)
    /\ pc = "start"
    /\ mapping = <<>>
    /\ idx = 0
    /\ inputs = <<>>
    /\ errors = <<>>
    /\ raised = "none"

IdleCsv ==
    /\ perm = Identity
    /\ data = <<>>
    /\ pc = "idle"
    /\ mapping = <<>>
    /\ idx = 0
    /\ inputs = <<>>
    /\ errors = <<>>
    /\ raised = "none"

\* lines 133: data[0] and get_mapping_by_header
MapHeader ==
    /\ pc = "start"
    /\ data # <<>>
    /\ get_mapping_by_header(header_mapping, data[1]).ok
    /\ mapping' = get_mapping_by_header(header_mapping, data[1]).mapping
    /\ pc' = "loop"
    /\ UNCHANGED <<perm, data, idx, inputs, errors, raised>>
    /\ UNCHANGED <<bahnVars, normVars>>

MapHeaderFails ==
    /\ pc = "start"
    /\ \/ data = <<>> /\ raised' = "IndexError"
       \/ /\ data # <<>>
          /\ ~get_mapping_by_header(header_mapping, data[1]).ok
          /\ raised' = "MappingError"
    /\ pc' = "raised"
    /\ UNCHANGED <<perm, data, mapping, idx, inputs, errors>>
    /\ UNCHANGED <<bahnVars, normVars>>

\* the row the for loop of line 136 takes next
CurrentRow == data[idx + 2]

MoreRows == pc = "loop" /\ idx < Len(data) - 1

\* lines 136-177, the row passes validation
RowAccepted ==
    /\ MoreRows
    /\ RowOutcome(mapping, CurrentRow).kind = "input"
    /\ inputs' = AppendTo(inputs, RowOutcome(mapping, CurrentRow).entry)
    /\ idx' = idx + 1
    /\ UNCHANGED <<perm, data, pc, mapping, errors, raised>>
    /\ UNCHANGED <<bahnVars, normVars>>

\* lines 136-158, the validator raises ValidationError
RowRejectedSilently ==
    /\ MoreRows
    /\ RowOutcome(mapping, CurrentRow).kind = "error"
    /\ idx' = idx + 1
    /\ UNCHANGED <<perm, data, pc, mapping, inputs, errors, raised>>
    /\ UNCHANGED <<bahnVars, normVars>>

RowRejected ==
    /\ MoreRows
    /\ RowOutcome(mapping, CurrentRow).kind = "error"
    /\ errors' = AppendTo(errors, RowOutcome(mapping, CurrentRow).entry)
    /\ idx' = idx + 1
    /\ UNCHANGED <<perm, data, pc, mapping, inputs, raised>>
    /\ UNCHANGED <<bahnVars, normVars>>

\* lines 136-147, an exception other than ValidationError leaves handle_csv
RowRaises ==
    /\ MoreRows
    /\ RowOutcome(mapping, CurrentRow).kind = "raise"
    /\ raised' = RowOutcome(mapping, CurrentRow).exc
    /\ pc' = "raised"
    /\ UNCHANGED <<perm, data, mapping, idx, inputs, errors>>
    /\ UNCHANGED <<bahnVars, normVars>>

\* line 179
ReturnResult ==
    /\ pc = "loop" /\ idx = Len(data) - 1
    /\ pc' = "done"
    /\ UNCHANGED <<perm, data, mapping, idx, inputs, errors, raised>>
    /\ UNCHANGED <<bahnVars, normVars>>

--------------------------------------------------------------------------
\* BahnParking.get_lot_data.
ALLOCATION_TEXT_TO_NUM_FREE_MAPPING ==
    ("bis 10" :> 5) @@ (">10" :> 11) @@ (">30" :> 31) @@ (">50" :> 51)

\* Python truthiness of alloc.get(key): None, False and "" are falsy.
Truthy(o) == o # None /\ TheValue(o) = TRUE

TruthyText(o) == o # None /\ TheValue(o) # ""

\* LotData(...): the constructor keeps the invariant of an observation that
\* num_free, when present, is at most capacity when capacity is present; an
\* observation that breaks it is rejected with an exception.
LotDataUnchecked(id, st, nf, cap) ==
    [ok |-> TRUE,
     value |-> [id |-> id, status |-> st, num_free |-> nf, capacity |-> cap]]

LotData(id, st, nf, cap) ==
    IF nf # None /\ cap # None /\ TheValue(nf) > TheValue(cap)
    THEN [ok |-> FALSE, value |-> None]
    ELSE [ok |-> TRUE,
          value |-> [id |-> id, status |-> st, num_free |-> nf, capacity |-> cap]]

\* Facilities as get_lot_infos_from_geojson returns them: with live data in
\* postal code area 7, without live data, and with live data elsewhere.
FacilityKinds ==
    {[has_live_capacity |-> TRUE,  address |-> <<"A", ",", " ", "7", "0">>],
     [has_live_capacity |-> FALSE, address |-> <<"A", ",", " ", "7", "0">>],
     [has_live_capacity |-> TRUE,  address |-> <<"7", ",", " ", "1", "0">>]}

WithIds(kinds) ==
    [k \in 1..Len(kinds) |-> [id |-> k,
                              has_live_capacity |-> kinds[k].has_live_capacity,
                              address |-> kinds[k].address]]

FacilityLists ==
    {WithIds(kinds) :
        kinds \in UNION {[1..n -> FacilityKinds] : n \in 0..MaxFacilities}}

\* The occupancy objects request_json can deliver.
Occupancies ==
    [validData   : {None, Some(TRUE), Some(FALSE)},
     vacancyText : {None, Some(""), Some("bis 10"), Some(">10"), Some(">30"),
                    Some(">50"), Some("voll")},
     capacity    : {None, Some(20)}]

NoAlloc == [validData |-> None, vacancyText |-> None, capacity |-> None]

InitBahn ==
    /\ facilities \in FacilityLists
    /\ bpc = "start"
    /\ fidx = 0
    /\ alloc = NoAlloc
    /\ status = "unbound"
    /\ capacity = None
    /\ num_free_text = None
    /\ num_free = None
    /\ lots = <<>>
    /\ returned = None
    /\ braised = "none"

IdleBahn ==
    /\ facilities = <<>>
    /\ bpc = "idle"
    /\ fidx = 0
    /\ alloc = NoAlloc
    /\ status = "unbound"
    /\ capacity = None
    /\ num_free_text = None
    /\ num_free = None
    /\ lots = <<>>
    /\ returned = None
    /\ braised = "none"

facility == facilities[fidx + 1]

MoreFacilities == bpc = "next" /\ fidx < Len(facilities)

InArea7(f) == Contains(f.address, <<",", " ", "7">>)

\* lines 76-80
GetFacilities ==
    /\ bpc = "start"
    /\ IF facilities = <<>>
       THEN returned' = Some(<<>>) /\ bpc' = "done"
       ELSE returned' = returned /\ bpc' = "next"
    /\ UNCHANGED <<facilities, fidx, alloc, status, capacity, num_free_text,
                   num_free, lots, braised>>
    /\ UNCHANGED <<csvVars, normVars>>

\* lines 83-85
SkipNoLiveData ==
    /\ MoreFacilities
    /\ ~facility.has_live_capacity
    /\ fidx' = fidx + 1
    /\ UNCHANGED <<facilities, bpc, alloc, status, capacity, num_free_text,
                   num_free, lots, returned, braised>>
    /\ UNCHANGED <<csvVars, normVars>>

\* lines 87-90
SkipNotInArea ==
    /\ MoreFacilities
    /\ facility.has_live_capacity
    /\ ~InArea7(facility)
    /\ fidx' = fidx + 1
    /\ UNCHANGED <<facilities, bpc, alloc, status, capacity, num_free_text,
                   num_free, lots, returned, braised>>
    /\ UNCHANGED <<csvVars, normVars>>

\* lines 92-95
RequestPrognosis ==
    /\ MoreFacilities
    /\ facility.has_live_capacity
    /\ InArea7(facility)
    /\ alloc' \in Occupancies
    /\ bpc' = "status"
    /\ UNCHANGED <<facilities, fidx, status, capacity, num_free_text,
                   num_free, lots, returned, braised>>
    /\ UNCHANGED <<csvVars, normVars>>

\* line 103
InitStatus ==
    /\ bpc = "status"
    /\ status' = "nodata"
    /\ bpc' = "valid"
    /\ UNCHANGED <<facilities, fidx, alloc, capacity, num_free_text,
                   num_free, lots, returned, braised>>
    /\ UNCHANGED <<csvVars, normVars>>

\* lines 104-105
StatusAfterValidData(st, a) == IF Truthy(a.validData) THEN "open" ELSE st

CheckValidData ==
    /\ bpc = "valid"
    /\ status' = StatusAfterValidData(status, alloc)
    /\ bpc' = "numfree"
    /\ UNCHANGED <<facilities, fidx, alloc, capacity, num_free_text,
                   num_free, lots, returned, braised>>
    /\ UNCHANGED <<csvVars, normVars>>

\* lines 108-110
ReadNumFree ==
    /\ bpc = "numfree"
    /\ capacity' = alloc.capacity
    /\ num_free_text' = alloc.vacancyText
    /\ num_free' = None
    /\ bpc' = "derive"
    /\ UNCHANGED <<facilities, fidx, alloc, status, lots, returned, braised>>
    /\ UNCHANGED <<csvVars, normVars>>

\* lines 112-114
StatusWithoutTextAlways(st) == "error"

StatusWithoutText(st) == IF st = "open" THEN "error" ELSE st

NoVacancyText ==
    /\ bpc = "derive"
    /\ ~TruthyText(num_free_text)
    /\ status' = StatusWithoutText(status)
    /\ bpc' = "append"
    /\ UNCHANGED <<facilities, fidx, alloc, capacity, num_free_text,
                   num_free, lots, returned, braised>>
    /\ UNCHANGED <<csvVars, normVars>>

\* lines 115-116, the text is a key of the mapping
MapVacancyText ==
    /\ bpc = "derive"
    /\ TruthyText(num_free_text)
    /\ TheValue(num_free_text) \in DOMAIN ALLOCATION_TEXT_TO_NUM_FREE_MAPPING
    /\ num_free' = Some(ALLOCATION_TEXT_TO_NUM_FREE_MAPPING[TheValue(num_free_text)])
    /\ bpc' = "append"
    /\ UNCHANGED <<facilities, fidx, alloc, status, capacity, num_free_text,
                   lots, returned, braised>>
    /\ UNCHANGED <<csvVars, normVars>>

\* lines 115-116, the text is no key of the mapping: the subscript raises
UnknownVacancyText ==
    /\ bpc = "derive"
    /\ TruthyText(num_free_text)
    /\ TheValue(num_free_text) \notin DOMAIN ALLOCATION_TEXT_TO_NUM_FREE_MAPPING
    /\ braised' = "KeyError"
    /\ bpc' = "raised"
    /\ UNCHANGED <<facilities, fidx, alloc, status, capacity, num_free_text,
                   num_free, lots, returned>>
    /\ UNCHANGED <<csvVars, normVars>>

\* lines 118-127
AppendLot ==
    /\ bpc = "append"
    /\ LotData(facility.id, status, num_free, capacity).ok
    /\ lots' = Append(lots, LotData(facility.id, status, num_free, capacity).value)
    /\ fidx' = fidx + 1
    /\ bpc' = "next"
    /\ UNCHANGED <<facilities, alloc, status, capacity, num_free_text,
                   num_free, returned, braised>>
    /\ UNCHANGED <<csvVars, normVars>>

\* lines 118-127, the constructor rejects the observation
LotRejected ==
    /\ bpc = "append"
    /\ ~LotData(facility.id, status, num_free, capacity).ok
    /\ braised' = "ValueError"
    /\ bpc' = "raised"
    /\ UNCHANGED <<facilities, fidx, alloc, status, capacity, num_free_text,
                   num_free, lots, returned>>
    /\ UNCHANGED <<csvVars, normVars>>

\* line 129
ReturnLots ==
    /\ bpc = "next" /\ fidx = Len(facilities)
    /\ returned' = Some(lots)
    /\ bpc' = "done"
    /\ UNCHANGED <<facilities, fidx, alloc, status, capacity, num_free_text,
                   num_free, lots, braised>>
    /\ UNCHANGED <<csvVars, normVars>>

--------------------------------------------------------------------------
\* The normalisation of lines 141-142 applied to a cell again and again.
NormAlphabet == {"4", ",", ".", "a"}

RawCells == UNION {[1..n -> NormAlphabet] : n \in 0..MaxStrLen}

InitNorm ==
    /\ orig \in RawCells
    /\ value = orig
    /\ prev = orig
    /\ napplied = 0

IdleNorm ==
    /\ orig = <<>>
    /\ value = <<>>
    /\ prev = <<>>
    /\ napplied = 0

ApplyNormalization ==
    /\ napplied < MaxApply
    /\ prev' = value
    /\ value' = NormalizeDecimal(value)
    /\ napplied' = napplied + 1
    /\ UNCHANGED <<orig, csvVars, bahnVars>>

--------------------------------------------------------------------------
\* One specification per program; the variables of the other two stay idle.
Init == InitCsv /\ IdleBahn /\ IdleNorm

Next ==
    \/ MapHeader
    \/ MapHeaderFails
    \/ RowAccepted
    \/ RowRejected
    \/ RowRaises
    \/ ReturnResult

Spec == Init /\ [][Next]_vars

BahnInit == IdleCsv /\ InitBahn /\ IdleNorm

BahnNext ==
    \/ GetFacilities
    \/ SkipNoLiveData
    \/ SkipNotInArea
    \/ RequestPrognosis
    \/ InitStatus
    \/ CheckValidData
    \/ ReadNumFree
    \/ NoVacancyText
    \/ MapVacancyText
    \/ UnknownVacancyText
    \/ AppendLot
    \/ LotRejected
    \/ ReturnLots

BahnSpec == BahnInit /\ [][BahnNext]_vars

NormInit == IdleCsv /\ IdleBahn /\ InitNorm

NormNext == ApplyNormalization

NormSpec == NormInit /\ [][NormNext]_vars

--------------------------------------------------------------------------
\* Properties of handle_csv.

HeaderMapped == data # <<>> /\ get_mapping_by_header(header_mapping, data[1]).ok

\* the data rows the loop has consumed so far
ConsumedRows == SubSeq(data, 2, idx + 1)

AcceptedRows ==
    SelectSeq(ConsumedRows, LAMBDA r : RowOutcome(mapping, r).kind = "input")

RejectedRows ==
    SelectSeq(ConsumedRows, LAMBDA r : RowOutcome(mapping, r).kind = "error")

\* the argument of handle_csv with its columns back in declaration order
table == PermuteTable(data, InversePerm(perm))

\* the cell of a row that stands in the column the header names the uid
UidCell(row) == row[CHOOSE k \in 1..Len(mapping) : mapping[k] = "uid"]

C2_FailureIsolation == HeaderMapped => pc # "raised"

\* C4: every entry of the errors carries the uid cell of the row it was made
\* for.
C4_ErrorCarriesUid ==
    pc \in {"loop", "done"} =>
        \A k \in 1..Len(errors) :
            k <= Len(RejectedRows) => errors[k].uid = Some(UidCell(RejectedRows[k]))

\* C5: the result for a table whose columns were permuted is the result for
\* the table in declaration order: the same exception or the same two
\* sequences.
C5_ColumnOrderInsensitive ==
    pc \in {"done", "raised"} =>
        /\ handle_csv(table).raised = raised
        /\ pc = "done" => /\ handle_csv(table).inputs = inputs
                          /\ handle_csv(table).errors = errors

\* C7: the inputs are the records of the consumed rows that passed
\* validation, in the order of the rows.
C7_OrderPreserved ==
    pc \in {"loop", "done"} =>
        inputs = [k \in 1..Len(AcceptedRows) |->
                     RowOutcome(mapping, AcceptedRows[k]).entry]

C7_Witness ==
    /\ pc = "done" /\ Len(data) = 4
    /\ RowOutcome(mapping, data[2]).kind = "input"
    /\ RowOutcome(mapping, data[3]).kind = "error"
    /\ RowOutcome(mapping, data[4]).kind = "input"
    /\ Len(inputs) = 2 /\ inputs[1] # inputs[2]

\* C9: every record of the inputs has a capacity that is not negative.
C9_NonNegativeCapacity ==
    \A k \in 1..Len(inputs) : inputs[k].capacity >= 0

--------------------------------------------------------------------------
\* Properties of the decimal normalisation.

HasChar(s, c) == \E k \in 1..Len(s) : s[k] = c

\* a number written with a dot as its decimal separator
WrittenWithDot(s) == HasDigit(s) /\ HasChar(s, ".") /\ ~HasChar(s, ",")

\* C8: a second application of the normalisation changes nothing; a value
\* written with a dot and a value without a digit come out unchanged.
C8_NormalizeIdempotent ==
    /\ napplied >= 2 => value = prev
    /\ (napplied >= 1 /\ WrittenWithDot(orig)) => value = orig
    /\ (napplied >= 1 /\ ~HasDigit(orig)) => value = orig

C8_Witness ==
    /\ napplied = 2
    /\ orig = <<"4", ",", "4">>
    /\ value = <<"4", ".", "4">>

--------------------------------------------------------------------------
\* Properties of get_lot_data.

\* C3: when an observation is about to be appended its status and num_free
\* follow the table: no valid data gives nodata; valid data with a known text
\* gives open and the number of the text; valid data with no text or an
\* unknown text gives error and no number; and an unknown text never makes
\* get_lot_data raise.
C3_StatusDerivation ==
    /\ braised # "KeyError"
    /\ bpc = "append" =>
        LET text == alloc.vacancyText
        IN  IF ~Truthy(alloc.validData) THEN status = "nodata"
            ELSE IF text = Some("bis 10") THEN status = "open" /\ num_free = Some(5)
            ELSE IF text = Some(">10") THEN status = "open" /\ num_free = Some(11)
            ELSE IF text = Some(">30") THEN status = "open" /\ num_free = Some(31)
            ELSE IF text = Some(">50") THEN status = "open" /\ num_free = Some(51)
            ELSE status = "error" /\ num_free = None

C10_StatusStateMachine ==
    [][/\ bpc = "status" => status' = "nodata"
       /\ (bpc # "status" /\ status' # status) =>
            \/ status = "nodata" /\ status' = "open" /\ Truthy(alloc.validData)
            \/ status = "open" /\ status' = "error" /\ ~TruthyText(num_free_text)
      ]_vars

C10_Witness ==
    /\ Len(lots) = 1 /\ lots[1].status = "error"
    /\ bpc = "append" /\ status = "nodata"

====
